---- MODULE Spec2Model ----
(***************************************************************************)
(* A model of the chess rules engine and click handler of src/src/App.jsx. *)
(* The board is the 8x8 grid of the source, indexed [row][col] from 0, row *)
(* 0 being Black's back rank.  Pieces are the source's one-letter symbols, *)
(* upper case for White, lower case for Black.                             *)
(***************************************************************************)
EXTENDS Integers, Sequences, FiniteSets, TLC

VARIABLES board, selectedPiece, turn, legalMoves, gameOver, isInCheck,
          hasKingMoved, hasRookMoved, everMoved, movesLeft

vars == <<board, selectedPiece, turn, legalMoves, gameOver, isInCheck,
          hasKingMoved, hasRookMoved, everMoved, movesLeft>>

(* The number of committed moves explored from a position with few moves. *)
MaxMoves == 2

(* The number of committed moves explored from a position with many moves, *)
(* the standard starting position among them.                              *)
DenseMoves == 1

(* The number of committed moves explored in the four-move game of         *)
(* SpecFoolsMate.                                                          *)
MateMoves == 4

(***************************************************************************)
(* Values                                                                  *)
(***************************************************************************)
null == "null"

NoPos == <<>>

Idx == 0..7

Squares == Idx \X Idx

Colors == {"white", "black"}

WhitePieces == {"R", "N", "B", "Q", "K", "P"}

Row0(s) == [c \in Idx |-> s[c + 1]]

Grid(rows) == [r \in Idx |-> Row0(rows[r + 1])]

EmptyRow == <<null, null, null, null, null, null, null, null>>

initialBoard ==
  Grid(<< <<"r", "n", "b", "q", "k", "b", "n", "r">>,
          <<"p", "p", "p", "p", "p", "p", "p", "p">>,
          EmptyRow, EmptyRow, EmptyRow, EmptyRow,
          <<"P", "P", "P", "P", "P", "P", "P", "P">>,
          <<"R", "N", "B", "Q", "K", "B", "N", "R">> >>)

toLowerCase(piece) ==
  CASE piece \in {"R", "r"} -> "r"
    [] piece \in {"N", "n"} -> "n"
    [] piece \in {"B", "b"} -> "b"
    [] piece \in {"Q", "q"} -> "q"
    [] piece \in {"K", "k"} -> "k"
    [] piece \in {"P", "p"} -> "p"
    [] OTHER -> piece

getPieceColor(piece) ==
  IF piece = null THEN "none"
  ELSE IF piece \in WhitePieces THEN "white" ELSE "black"

isValidCoord(row, col) == row >= 0 /\ row < 8 /\ col >= 0 /\ col < 8

Opponent(color) == IF color = "white" THEN "black" ELSE "white"

(* currentBoard[r][c] = v on a copy of the board *)
Put(b, r, c, v) == [b EXCEPT ![r][c] = v]

findKing(currentBoard, color) ==
  LET kingSymbol == IF color = "white" THEN "K" ELSE "k"
      found == {sq \in Squares : currentBoard[sq[1]][sq[2]] = kingSymbol}
  IN IF found = {} THEN NoPos
     ELSE CHOOSE sq \in found :
            \A o \in found : 8 * sq[1] + sq[2] <= 8 * o[1] + o[2]

(***************************************************************************)
(* Attack detector                                                         *)
(***************************************************************************)
knightMoves ==
  {<<-2, -1>>, <<-2, 1>>, <<-1, -2>>, <<-1, 2>>,
   <<1, -2>>, <<1, 2>>, <<2, -1>>, <<2, 1>>}

straightDeltas == {<<0, 1>>, <<0, -1>>, <<1, 0>>, <<-1, 0>>}

diagonalDeltas == {<<-1, -1>>, <<-1, 1>>, <<1, -1>>, <<1, 1>>}

kingDeltas == straightDeltas \cup diagonalDeltas

(* One of the fixed-offset loops: a piece of the kind at target + delta. *)
OffsetAttack(currentBoard, targetRow, targetCol, attackingColor, deltas, kind) ==
  \E d \in deltas :
    LET r == targetRow + d[1]
        c == targetCol + d[2]
    IN /\ isValidCoord(r, c)
       /\ currentBoard[r][c] # null
       /\ getPieceColor(currentBoard[r][c]) = attackingColor
       /\ toLowerCase(currentBoard[r][c]) = kind

(* Variant: the ray stops at the first square, occupied or not. *)
RayAttack_OneStep(currentBoard, r, c, dr, dc, attackingColor, kinds) ==
  /\ isValidCoord(r, c)
  /\ currentBoard[r][c] # null
  /\ getPieceColor(currentBoard[r][c]) = attackingColor
  /\ toLowerCase(currentBoard[r][c]) \in kinds

(* The while loop of a ray: the first occupied square decides. *)
RECURSIVE RayAttack(_, _, _, _, _, _, _)
RayAttack(currentBoard, r, c, dr, dc, attackingColor, kinds) ==
  IF ~isValidCoord(r, c) THEN FALSE
  ELSE IF currentBoard[r][c] # null
       THEN /\ getPieceColor(currentBoard[r][c]) = attackingColor
            /\ toLowerCase(currentBoard[r][c]) \in kinds
       ELSE RayAttack(currentBoard, r + dr, c + dc, dr, dc, attackingColor, kinds)

(* Variant: the pawn is looked for on the wrong side of the target. *)
isSquareAttacked_PawnReversed(currentBoard, targetRow, targetCol, attackingColor) ==
  LET pawnDirection == IF attackingColor = "white" THEN -1 ELSE 1
      pawnAttackDeltas == {<<pawnDirection, -1>>, <<pawnDirection, 1>>}
  IN \/ OffsetAttack(currentBoard, targetRow, targetCol, attackingColor,
                     pawnAttackDeltas, "p")
     \/ OffsetAttack(currentBoard, targetRow, targetCol, attackingColor,
                     knightMoves, "n")
     \/ \E d \in straightDeltas :
          RayAttack(currentBoard, targetRow + d[1], targetCol + d[2],
                    d[1], d[2], attackingColor, {"r", "q"})
     \/ \E d \in diagonalDeltas :
          RayAttack(currentBoard, targetRow + d[1], targetCol + d[2],
                    d[1], d[2], attackingColor, {"b", "q"})
     \/ OffsetAttack(currentBoard, targetRow, targetCol, attackingColor,
                     kingDeltas, "k")

isSquareAttacked(currentBoard, targetRow, targetCol, attackingColor) ==
  LET pawnDirection == IF attackingColor = "white" THEN 1 ELSE -1
      pawnAttackDeltas == {<<pawnDirection, -1>>, <<pawnDirection, 1>>}
  IN \/ OffsetAttack(currentBoard, targetRow, targetCol, attackingColor,
                     pawnAttackDeltas, "p")
     \/ OffsetAttack(currentBoard, targetRow, targetCol, attackingColor,
                     knightMoves, "n")
     \/ \E d \in straightDeltas :
          RayAttack(currentBoard, targetRow + d[1], targetCol + d[2],
                    d[1], d[2], attackingColor, {"r", "q"})
     \/ \E d \in diagonalDeltas :
          RayAttack(currentBoard, targetRow + d[1], targetCol + d[2],
                    d[1], d[2], attackingColor, {"b", "q"})
     \/ OffsetAttack(currentBoard, targetRow, targetCol, attackingColor,
                     kingDeltas, "k")

(***************************************************************************)
(* Move generator                                                          *)
(***************************************************************************)
(* checkDirections: one ray of a rook, bishop or queen. *)
RECURSIVE RayMoves(_, _, _, _, _, _)
RayMoves(currentBoard, r, c, dr, dc, currentPlayerColor) ==
  IF ~isValidCoord(r, c) THEN {}
  ELSE IF currentBoard[r][c] # null
       THEN IF getPieceColor(currentBoard[r][c]) # currentPlayerColor
            THEN {<<r, c>>} ELSE {}
       ELSE {<<r, c>>} \cup
            RayMoves(currentBoard, r + dr, c + dc, dr, dc, currentPlayerColor)

checkDirections(currentBoard, row, col, deltas, currentPlayerColor) ==
  UNION {RayMoves(currentBoard, row + d[1], col + d[2], d[1], d[2],
                  currentPlayerColor) : d \in deltas}

(* The knight's and the king's loop over fixed offsets. *)
OffsetMoves(currentBoard, row, col, deltas, currentPlayerColor) ==
  {<<row + d[1], col + d[2]>> : d \in
     {e \in deltas :
        /\ isValidCoord(row + e[1], col + e[2])
        /\ \/ currentBoard[row + e[1]][col + e[2]] = null
           \/ getPieceColor(currentBoard[row + e[1]][col + e[2]])
                # currentPlayerColor}}

(* Variant: a diagonal step is taken onto an empty square as well. *)
PawnMoves_DiagonalOntoEmpty(currentBoard, row, col, isWhite, currentPlayerColor) ==
  LET direction == IF isWhite THEN -1 ELSE 1
      startRow == IF isWhite THEN 6 ELSE 1
      single == IF /\ isValidCoord(row + direction, col)
                   /\ currentBoard[row + direction][col] = null
                THEN {<<row + direction, col>>} ELSE {}
      double == IF /\ row = startRow
                   /\ currentBoard[row + direction][col] = null
                   /\ currentBoard[row + 2 * direction][col] = null
                THEN {<<row + 2 * direction, col>>} ELSE {}
      captures == {<<row + direction, col + offset>> : offset \in
                     {o \in {-1, 1} :
                        /\ isValidCoord(row + direction, col + o)
                        /\ getPieceColor(currentBoard[row + direction][col + o])
                             # currentPlayerColor}}
  IN single \cup double \cup captures

(* Variant: the double step from the starting rank is left out. *)
PawnMoves_NoDouble(currentBoard, row, col, isWhite, currentPlayerColor) ==
  LET direction == IF isWhite THEN -1 ELSE 1
      single == IF /\ isValidCoord(row + direction, col)
                   /\ currentBoard[row + direction][col] = null
                THEN {<<row + direction, col>>} ELSE {}
      captures == {<<row + direction, col + offset>> : offset \in
                     {o \in {-1, 1} :
                        /\ isValidCoord(row + direction, col + o)
                        /\ currentBoard[row + direction][col + o] # null
                        /\ getPieceColor(currentBoard[row + direction][col + o])
                             # currentPlayerColor}}
  IN single \cup captures

PawnMoves(currentBoard, row, col, isWhite, currentPlayerColor) ==
  LET direction == IF isWhite THEN -1 ELSE 1
      startRow == IF isWhite THEN 6 ELSE 1
      single == IF /\ isValidCoord(row + direction, col)
                   /\ currentBoard[row + direction][col] = null
                THEN {<<row + direction, col>>} ELSE {}
      double == IF /\ row = startRow
                   /\ currentBoard[row + direction][col] = null
                   /\ currentBoard[row + 2 * direction][col] = null
                THEN {<<row + 2 * direction, col>>} ELSE {}
      captures == {<<row + direction, col + offset>> : offset \in
                     {o \in {-1, 1} :
                        /\ isValidCoord(row + direction, col + o)
                        /\ currentBoard[row + direction][col + o] # null
                        /\ getPieceColor(currentBoard[row + direction][col + o])
                             # currentPlayerColor}}
  IN single \cup double \cup captures

(* Variant: the square the king crosses is not tested for attack. *)
KingsideCastling_NoTransit(currentBoard, col, kingRow, currentPlayerColor, opponentColor) ==
  /\ ~hasKingMoved[currentPlayerColor]
  /\ ~hasRookMoved[currentPlayerColor].kingside
  /\ currentBoard[kingRow][5] = null
  /\ currentBoard[kingRow][6] = null
  /\ toLowerCase(currentBoard[kingRow][7]) = "r"
  /\ getPieceColor(currentBoard[kingRow][7]) = currentPlayerColor
  /\ ~isSquareAttacked(currentBoard, kingRow, col, opponentColor)
  /\ ~isSquareAttacked(currentBoard, kingRow, 6, opponentColor)

KingsideCastling(currentBoard, col, kingRow, currentPlayerColor, opponentColor) ==
  /\ ~hasKingMoved[currentPlayerColor]
  /\ ~hasRookMoved[currentPlayerColor].kingside
  /\ currentBoard[kingRow][5] = null
  /\ currentBoard[kingRow][6] = null
  /\ toLowerCase(currentBoard[kingRow][7]) = "r"
  /\ getPieceColor(currentBoard[kingRow][7]) = currentPlayerColor
  /\ ~isSquareAttacked(currentBoard, kingRow, col, opponentColor)
  /\ ~isSquareAttacked(currentBoard, kingRow, 5, opponentColor)
  /\ ~isSquareAttacked(currentBoard, kingRow, 6, opponentColor)

QueensideCastling(currentBoard, col, kingRow, currentPlayerColor, opponentColor) ==
  /\ ~hasKingMoved[currentPlayerColor]
  /\ ~hasRookMoved[currentPlayerColor].queenside
  /\ currentBoard[kingRow][1] = null
  /\ currentBoard[kingRow][2] = null
  /\ currentBoard[kingRow][3] = null
  /\ toLowerCase(currentBoard[kingRow][0]) = "r"
  /\ getPieceColor(currentBoard[kingRow][0]) = currentPlayerColor
  /\ ~isSquareAttacked(currentBoard, kingRow, col, opponentColor)
  /\ ~isSquareAttacked(currentBoard, kingRow, 2, opponentColor)
  /\ ~isSquareAttacked(currentBoard, kingRow, 3, opponentColor)

CastlingMoves(currentBoard, col, isWhite, currentPlayerColor) ==
  LET kingRow == IF isWhite THEN 7 ELSE 0
      opponentColor == IF isWhite THEN "black" ELSE "white"
  IN (IF KingsideCastling(currentBoard, col, kingRow, currentPlayerColor,
                          opponentColor)
      THEN {<<kingRow, 6>>} ELSE {})
     \cup
     (IF QueensideCastling(currentBoard, col, kingRow, currentPlayerColor,
                           opponentColor)
      THEN {<<kingRow, 2>>} ELSE {})

calculateTheoreticalMoves(currentBoard, row, col) ==
  LET piece == currentBoard[row][col]
      isWhite == getPieceColor(piece) = "white"
      currentPlayerColor == IF isWhite THEN "white" ELSE "black"
      kind == toLowerCase(piece)
  IN IF piece = null THEN {}
     ELSE CASE kind = "p" ->
                 PawnMoves(currentBoard, row, col, isWhite, currentPlayerColor)
            [] kind = "r" ->
                 checkDirections(currentBoard, row, col, straightDeltas,
                                 currentPlayerColor)
            [] kind = "n" ->
                 OffsetMoves(currentBoard, row, col, knightMoves,
                             currentPlayerColor)
            [] kind = "b" ->
                 checkDirections(currentBoard, row, col, diagonalDeltas,
                                 currentPlayerColor)
            [] kind = "q" ->
                 checkDirections(currentBoard, row, col,
                                 straightDeltas \cup diagonalDeltas,
                                 currentPlayerColor)
            [] kind = "k" ->
                 OffsetMoves(currentBoard, row, col, kingDeltas,
                             currentPlayerColor)
                 \cup CastlingMoves(currentBoard, col, isWhite,
                                    currentPlayerColor)
            [] OTHER -> {}

(***************************************************************************)
(* Legality filter                                                         *)
(***************************************************************************)
(* Variant: the candidate is not applied to the scratch board. *)
SimulateMove_NoMove(currentBoard, fromRow, fromCol, toRow, toCol) ==
  currentBoard

(* The scratch board of the filter after one candidate has been applied. *)
SimulateMove(currentBoard, fromRow, fromCol, toRow, toCol) ==
  LET pieceToMove == currentBoard[fromRow][fromCol]
      isCastlingMove == /\ toLowerCase(pieceToMove) = "k"
                        /\ (toCol - fromCol = 2 \/ fromCol - toCol = 2)
  IN IF isCastlingMove
     THEN IF toCol = fromCol + 2
          THEN Put(Put(Put(Put(currentBoard,
                   toRow, toCol, pieceToMove),
                   fromRow, fromCol, null),
                   toRow, 5, currentBoard[fromRow][7]),
                   fromRow, 7, null)
          ELSE Put(Put(Put(Put(currentBoard,
                   toRow, toCol, pieceToMove),
                   fromRow, fromCol, null),
                   toRow, 3, currentBoard[fromRow][0]),
                   fromRow, 0, null)
     ELSE Put(Put(currentBoard, toRow, toCol, pieceToMove),
              fromRow, fromCol, null)

(* Variant: a candidate is kept when the king cannot be located. *)
KeepsKingSafe_NoKingIsSafe(currentBoard, fromRow, fromCol, toRow, toCol, currentPlayerColor) ==
  LET tempBoard == SimulateMove(currentBoard, fromRow, fromCol, toRow, toCol)
      kingPos == findKing(tempBoard, currentPlayerColor)
  IN \/ kingPos = NoPos
     \/ ~isSquareAttacked(tempBoard, kingPos[1], kingPos[2],
                          IF currentPlayerColor = "white" THEN "black"
                          ELSE "white")

(* Variant: the king is looked up on the board before the move. *)
KeepsKingSafe_StaleKing(currentBoard, fromRow, fromCol, toRow, toCol, currentPlayerColor) ==
  LET tempBoard == SimulateMove(currentBoard, fromRow, fromCol, toRow, toCol)
      kingPos == findKing(currentBoard, currentPlayerColor)
  IN /\ kingPos # NoPos
     /\ ~isSquareAttacked(tempBoard, kingPos[1], kingPos[2],
                          IF currentPlayerColor = "white" THEN "black"
                          ELSE "white")

KeepsKingSafe(currentBoard, fromRow, fromCol, toRow, toCol, currentPlayerColor) ==
  LET tempBoard == SimulateMove(currentBoard, fromRow, fromCol, toRow, toCol)
      kingPos == findKing(tempBoard, currentPlayerColor)
  IN /\ kingPos # NoPos
     /\ ~isSquareAttacked(tempBoard, kingPos[1], kingPos[2],
                          IF currentPlayerColor = "white" THEN "black"
                          ELSE "white")

getLegalMovesAfterCheckFilter(currentBoard, fromRow, fromCol, theoreticalMoves, currentPlayerColor) ==
  {m \in theoreticalMoves :
     KeepsKingSafe(currentBoard, fromRow, fromCol, m[1], m[2],
                   currentPlayerColor)}

isKingInCheck(currentBoard, playerColor) ==
  LET kingPos == findKing(currentBoard, playerColor)
  IN IF kingPos = NoPos THEN FALSE
     ELSE isSquareAttacked(currentBoard, kingPos[1], kingPos[2],
                           IF playerColor = "white" THEN "black" ELSE "white")

(***************************************************************************)
(* Game-state classifier                                                   *)
(***************************************************************************)
(* Variant: a side without a legal move is mated, in check or not. *)
checkGameEnd_NoMoveIsMate(currentBoard, currentPlayerColor) ==
  LET hasLegalMoves ==
        \E r \in Idx, c \in Idx :
          /\ currentBoard[r][c] # null
          /\ getPieceColor(currentBoard[r][c]) = currentPlayerColor
          /\ getLegalMovesAfterCheckFilter(currentBoard, r, c,
               calculateTheoreticalMoves(currentBoard, r, c),
               currentPlayerColor) # {}
  IN IF ~hasLegalMoves THEN "checkmate" ELSE null

(* Variant: the scan counts theoretical moves, not filtered ones. *)
checkGameEnd_Unfiltered(currentBoard, currentPlayerColor) ==
  LET hasLegalMoves ==
        \E r \in Idx, c \in Idx :
          /\ currentBoard[r][c] # null
          /\ getPieceColor(currentBoard[r][c]) = currentPlayerColor
          /\ calculateTheoreticalMoves(currentBoard, r, c) # {}
  IN IF isKingInCheck(currentBoard, currentPlayerColor)
     THEN IF ~hasLegalMoves THEN "checkmate" ELSE null
     ELSE IF ~hasLegalMoves THEN "stalemate" ELSE null

checkGameEnd(currentBoard, currentPlayerColor) ==
  LET hasLegalMoves ==
        \E r \in Idx, c \in Idx :
          /\ currentBoard[r][c] # null
          /\ getPieceColor(currentBoard[r][c]) = currentPlayerColor
          /\ getLegalMovesAfterCheckFilter(currentBoard, r, c,
               calculateTheoreticalMoves(currentBoard, r, c),
               currentPlayerColor) # {}
  IN IF isKingInCheck(currentBoard, currentPlayerColor)
     THEN IF ~hasLegalMoves THEN "checkmate" ELSE null
     ELSE IF ~hasLegalMoves THEN "stalemate" ELSE null

(***************************************************************************)
(* The session.  The message line is presentation and is left out; the     *)
(* handler branches that only set it leave the state unchanged.            *)
(*                                                                         *)
(* Positions: the state after construction, and states of games in         *)
(* progress (each can be reached from the starting position by legal       *)
(* play), with the castling flags and the moved-piece history such a game  *)
(* leaves behind.  A game in progress is met just after a committed move:  *)
(* nothing selected, isInCheck as that move set it.                        *)
(***************************************************************************)
Flags(k, ks, qs) == [king |-> k, kingside |-> ks, queenside |-> qs]

(* Both sides may castle; a black bishop on a6 eyes f1.  White to move. *)
CastleBoard ==
  Grid(<< <<"r", null, null, null, "k", null, null, "r">>,
          EmptyRow,
          <<"b", null, null, null, null, null, null, null>>,
          EmptyRow, EmptyRow, EmptyRow, EmptyRow,
          <<"R", null, null, null, "K", null, null, "R">> >>)

(* Both sides may castle; a white bishop on h4 eyes d8.  Black to move. *)
CastleBoardBlack ==
  Grid(<< <<"r", null, null, null, "k", null, null, "r">>,
          EmptyRow, EmptyRow, EmptyRow,
          <<null, null, null, null, null, null, null, "B">>,
          EmptyRow, EmptyRow,
          <<"R", null, null, null, "K", null, null, "R">> >>)

(* White's h1 rook was captured at home; the a1 rook has come to h2. *)
WanderingRookBoard ==
  Grid(<< <<null, "k", null, null, null, null, null, null>>,
          EmptyRow, EmptyRow, EmptyRow, EmptyRow,
          <<null, null, null, null, null, null, null, "P">>,
          <<null, null, null, null, null, null, "P", "R">>,
          <<null, null, null, null, "K", null, null, null>> >>)

(* Ra8 mates on the back rank.  White to move. *)
BackRankBoard ==
  Grid(<< <<null, null, null, null, null, null, "k", null>>,
          <<null, null, null, null, null, "p", "p", "p">>,
          EmptyRow, EmptyRow, EmptyRow, EmptyRow, EmptyRow,
          <<"R", null, null, null, null, null, "K", null>> >>)

(* Qb3 stalemates the king on a1.  Black to move. *)
QueenBoard ==
  Grid(<< EmptyRow, EmptyRow, EmptyRow,
          <<null, "q", null, null, null, null, null, null>>,
          EmptyRow, EmptyRow,
          <<null, null, "k", null, null, null, null, null>>,
          <<"K", null, null, null, null, null, null, null>> >>)

(* White to move, in check from the bishop on b4. *)
CheckBoard ==
  Grid(<< <<null, null, null, null, "k", null, null, null>>,
          <<null, null, null, null, null, "p", null, null>>,
          <<null, null, "n", null, null, null, null, null>>,
          <<null, null, null, "p", null, null, null, null>>,
          <<null, "b", null, null, "P", null, null, null>>,
          EmptyRow,
          <<null, null, "P", null, null, null, null, null>>,
          <<null, "N", null, null, "K", null, null, "R">> >>)

(* White to move, in check from the rook on e8, which the queen can take.  *)
CrossCheckBoard ==
  Grid(<< <<null, null, null, null, "r", null, "k", null>>,
          <<null, null, null, null, null, null, "p", "p">>,
          EmptyRow,
          <<null, null, null, null, null, null, null, "Q">>,
          EmptyRow, EmptyRow, EmptyRow,
          <<null, null, null, null, "K", null, null, null>> >>)

Positions ==
  { [board |-> initialBoard, turn |-> "white",
     white |-> Flags(FALSE, FALSE, FALSE), black |-> Flags(FALSE, FALSE, FALSE),
     unmoved |-> Squares, depth |-> DenseMoves],
    [board |-> CastleBoard, turn |-> "white",
     white |-> Flags(FALSE, FALSE, FALSE), black |-> Flags(FALSE, FALSE, FALSE),
     unmoved |-> {<<0, 0>>, <<0, 4>>, <<0, 7>>, <<7, 0>>, <<7, 4>>, <<7, 7>>},
     depth |-> DenseMoves],
    [board |-> CastleBoardBlack, turn |-> "black",
     white |-> Flags(FALSE, FALSE, FALSE), black |-> Flags(FALSE, FALSE, FALSE),
     unmoved |-> {<<0, 0>>, <<0, 4>>, <<0, 7>>, <<7, 0>>, <<7, 4>>, <<7, 7>>},
     depth |-> DenseMoves],
    [board |-> WanderingRookBoard, turn |-> "white",
     white |-> Flags(FALSE, FALSE, TRUE), black |-> Flags(TRUE, FALSE, FALSE),
     unmoved |-> {<<6, 6>>, <<7, 4>>}, depth |-> MaxMoves],
    [board |-> BackRankBoard, turn |-> "white",
     white |-> Flags(TRUE, TRUE, FALSE), black |-> Flags(TRUE, TRUE, FALSE),
     unmoved |-> {<<1, 5>>, <<1, 6>>, <<1, 7>>, <<7, 0>>},
     depth |-> DenseMoves],
    [board |-> QueenBoard, turn |-> "black",
     white |-> Flags(TRUE, TRUE, TRUE), black |-> Flags(TRUE, TRUE, TRUE),
     unmoved |-> {}, depth |-> DenseMoves],
    [board |-> CheckBoard, turn |-> "white",
     white |-> Flags(FALSE, FALSE, TRUE), black |-> Flags(FALSE, FALSE, FALSE),
     unmoved |-> {<<0, 4>>, <<1, 5>>, <<6, 2>>, <<7, 1>>, <<7, 4>>, <<7, 7>>},
     depth |-> DenseMoves],
    [board |-> CrossCheckBoard, turn |-> "white",
     white |-> Flags(TRUE, TRUE, TRUE), black |-> Flags(TRUE, TRUE, TRUE),
     unmoved |-> {<<1, 6>>, <<1, 7>>}, depth |-> DenseMoves] }

(***************************************************************************)
(* State machine                                                           *)
(***************************************************************************)
Init ==
  \E p \in Positions :
    /\ board = p.board
    /\ selectedPiece = NoPos
    /\ turn = p.turn
    /\ legalMoves = {}
    /\ gameOver = FALSE
    /\ isInCheck = isKingInCheck(p.board, p.turn)
    /\ hasKingMoved = [white |-> p.white.king, black |-> p.black.king]
    /\ hasRookMoved =
         [white |-> [kingside |-> p.white.kingside,
                     queenside |-> p.white.queenside],
          black |-> [kingside |-> p.black.kingside,
                     queenside |-> p.black.queenside]]
    /\ everMoved = [r \in Idx |-> [c \in Idx |->
                      p.board[r][c] # null /\ <<r, c>> \notin p.unmoved]]
    /\ movesLeft = p.depth

(* Variant: the early return is missing and a piece can still be selected. *)
ClickGameOver_Selects(row, col) ==
  /\ gameOver
  /\ selectedPiece = NoPos
  /\ board[row][col] # null
  /\ getPieceColor(board[row][col]) = turn
  /\ selectedPiece' = <<row, col>>
  /\ legalMoves' = getLegalMovesAfterCheckFilter(board, row, col,
                     calculateTheoreticalMoves(board, row, col), turn)
  /\ UNCHANGED <<board, turn, gameOver, isInCheck, hasKingMoved, hasRookMoved,
                 everMoved, movesLeft>>

(* handleSquareClick when the game is over: nothing but the message. *)
ClickGameOver(row, col) ==
  /\ gameOver
  /\ UNCHANGED <<board, selectedPiece, turn, legalMoves, gameOver, isInCheck,
                 hasKingMoved, hasRookMoved, everMoved, movesLeft>>

(* Variant: the colour of the clicked piece is not compared with the turn. *)
SelectPiece_AnyColour(row, col) ==
  /\ ~gameOver
  /\ selectedPiece = NoPos
  /\ board[row][col] # null
  /\ selectedPiece' = <<row, col>>
  /\ legalMoves' = getLegalMovesAfterCheckFilter(board, row, col,
                     calculateTheoreticalMoves(board, row, col), turn)
  /\ UNCHANGED <<board, turn, gameOver, isInCheck, hasKingMoved, hasRookMoved,
                 everMoved, movesLeft>>

(* No piece selected, the click is on a piece of the side to move. *)
SelectPiece(row, col) ==
  /\ ~gameOver
  /\ selectedPiece = NoPos
  /\ board[row][col] # null
  /\ getPieceColor(board[row][col]) = turn
  /\ selectedPiece' = <<row, col>>
  /\ legalMoves' = getLegalMovesAfterCheckFilter(board, row, col,
                     calculateTheoreticalMoves(board, row, col), turn)
  /\ UNCHANGED <<board, turn, gameOver, isInCheck, hasKingMoved, hasRookMoved,
                 everMoved, movesLeft>>

(* No piece selected, the click is on a piece of the other side. *)
ClickWrongTurn(row, col) ==
  /\ ~gameOver
  /\ selectedPiece = NoPos
  /\ board[row][col] # null
  /\ getPieceColor(board[row][col]) # turn
  /\ UNCHANGED <<board, selectedPiece, turn, legalMoves, gameOver, isInCheck,
                 hasKingMoved, hasRookMoved, everMoved, movesLeft>>

(* No piece selected, the click is on an empty square. *)
ClickEmpty(row, col) ==
  /\ ~gameOver
  /\ selectedPiece = NoPos
  /\ board[row][col] = null
  /\ UNCHANGED <<board, selectedPiece, turn, legalMoves, gameOver, isInCheck,
                 hasKingMoved, hasRookMoved, everMoved, movesLeft>>

Deselect(row, col) ==
  /\ ~gameOver
  /\ selectedPiece # NoPos
  /\ selectedPiece = <<row, col>>
  /\ selectedPiece' = NoPos
  /\ legalMoves' = {}
  /\ UNCHANGED <<board, turn, gameOver, isInCheck, hasKingMoved, hasRookMoved,
                 everMoved, movesLeft>>

(* Variant: the selection changes and the legal moves are not recomputed. *)
Reselect_StaleMoves(row, col) ==
  /\ ~gameOver
  /\ selectedPiece # NoPos
  /\ selectedPiece # <<row, col>>
  /\ board[row][col] # null
  /\ getPieceColor(board[row][col]) = turn
  /\ selectedPiece' = <<row, col>>
  /\ UNCHANGED <<board, turn, legalMoves, gameOver, isInCheck, hasKingMoved,
                 hasRookMoved, everMoved, movesLeft>>

Reselect(row, col) ==
  /\ ~gameOver
  /\ selectedPiece # NoPos
  /\ selectedPiece # <<row, col>>
  /\ board[row][col] # null
  /\ getPieceColor(board[row][col]) = turn
  /\ selectedPiece' = <<row, col>>
  /\ legalMoves' = getLegalMovesAfterCheckFilter(board, row, col,
                     calculateTheoreticalMoves(board, row, col), turn)
  /\ UNCHANGED <<board, turn, gameOver, isInCheck, hasKingMoved, hasRookMoved,
                 everMoved, movesLeft>>

(* The board the commit step writes. *)
isCastlingAttempt(currentBoard, selectedRow, selectedCol, row, col) ==
  /\ toLowerCase(currentBoard[selectedRow][selectedCol]) = "k"
  /\ (col - selectedCol = 2 \/ selectedCol - col = 2)

(* Variant: castling moves the king and leaves the rook on its corner. *)
ApplyMove_KingOnly(currentBoard, selectedRow, selectedCol, row, col) ==
  LET pieceAtSelected == currentBoard[selectedRow][selectedCol]
  IN Put(Put(currentBoard, row, col, pieceAtSelected),
         selectedRow, selectedCol, null)

ApplyMove(currentBoard, selectedRow, selectedCol, row, col) ==
  LET pieceAtSelected == currentBoard[selectedRow][selectedCol]
      moved == Put(Put(currentBoard, row, col, pieceAtSelected),
                   selectedRow, selectedCol, null)
  IN IF isCastlingAttempt(currentBoard, selectedRow, selectedCol, row, col)
     THEN IF col = selectedCol + 2
          THEN Put(Put(moved, row, col - 1, moved[row][7]), row, 7, null)
          ELSE Put(Put(moved, row, col + 1, moved[row][0]), row, 0, null)
     ELSE moved

(* Variant: the king flag is set by castling only, not by a plain king move. *)
NextKingMoved_CastlingOnly(selectedRow, selectedCol, row, col) ==
  IF isCastlingAttempt(board, selectedRow, selectedCol, row, col)
  THEN [hasKingMoved EXCEPT ![turn] = TRUE]
  ELSE hasKingMoved

(* Variant: a king move sets the king flag of the colour that did not move. *)
NextKingMoved_WrongColour(selectedRow, selectedCol, row, col) ==
  IF toLowerCase(board[selectedRow][selectedCol]) = "k"
  THEN [hasKingMoved EXCEPT ![Opponent(turn)] = TRUE]
  ELSE hasKingMoved

(* hasKingMoved after the commit. *)
NextKingMoved(selectedRow, selectedCol, row, col) ==
  IF toLowerCase(board[selectedRow][selectedCol]) = "k"
  THEN [hasKingMoved EXCEPT ![turn] = TRUE]
  ELSE hasKingMoved

(* Variant: the mover's record is written without spreading its old value. *)
NextRookMoved_Overwrite(selectedRow, selectedCol, row, col) ==
  LET homeRow == IF turn = "white" THEN 7 ELSE 0
  IN IF isCastlingAttempt(board, selectedRow, selectedCol, row, col)
     THEN IF col = selectedCol + 2
          THEN [hasRookMoved EXCEPT ![turn] =
                  [kingside |-> TRUE, queenside |-> FALSE]]
          ELSE [hasRookMoved EXCEPT ![turn] =
                  [kingside |-> FALSE, queenside |-> TRUE]]
     ELSE IF toLowerCase(board[selectedRow][selectedCol]) = "r"
          THEN IF selectedRow = homeRow /\ selectedCol = 0
               THEN [hasRookMoved EXCEPT ![turn] =
                       [kingside |-> FALSE, queenside |-> TRUE]]
               ELSE IF selectedRow = homeRow /\ selectedCol = 7
                    THEN [hasRookMoved EXCEPT ![turn] =
                            [kingside |-> TRUE, queenside |-> FALSE]]
                    ELSE hasRookMoved
          ELSE hasRookMoved

(* hasRookMoved after the commit. *)
NextRookMoved(selectedRow, selectedCol, row, col) ==
  LET homeRow == IF turn = "white" THEN 7 ELSE 0
  IN IF isCastlingAttempt(board, selectedRow, selectedCol, row, col)
     THEN IF col = selectedCol + 2
          THEN [hasRookMoved EXCEPT ![turn].kingside = TRUE]
          ELSE [hasRookMoved EXCEPT ![turn].queenside = TRUE]
     ELSE IF toLowerCase(board[selectedRow][selectedCol]) = "r"
          THEN IF selectedRow = homeRow /\ selectedCol = 0
               THEN [hasRookMoved EXCEPT ![turn].queenside = TRUE]
               ELSE IF selectedRow = homeRow /\ selectedCol = 7
                    THEN [hasRookMoved EXCEPT ![turn].kingside = TRUE]
                    ELSE hasRookMoved
          ELSE hasRookMoved

(* History: which squares hold a piece that has moved in this game. *)
NextEverMoved(selectedRow, selectedCol, row, col) ==
  LET newBoard == ApplyMove(board, selectedRow, selectedCol, row, col)
  IN [r \in Idx |-> [c \in Idx |->
        IF newBoard[r][c] = null THEN FALSE
        ELSE IF newBoard[r][c] = board[r][c] /\ <<r, c>> # <<row, col>>
             THEN everMoved[r][c]
             ELSE TRUE]]

(* A piece is selected and the click is on one of its legal destinations. *)
CommitMove(row, col) ==
  /\ ~gameOver
  /\ selectedPiece # NoPos
  /\ selectedPiece # <<row, col>>
  /\ ~(board[row][col] # null /\ getPieceColor(board[row][col]) = turn)
  /\ <<row, col>> \in legalMoves
  /\ movesLeft > 0
  /\ LET selectedRow == selectedPiece[1]
         selectedCol == selectedPiece[2]
         newBoard == ApplyMove(board, selectedRow, selectedCol, row, col)
         nextTurn == IF turn = "white" THEN "black" ELSE "white"
         gameEndStatus == checkGameEnd(newBoard, nextTurn)
     IN /\ board' = newBoard
        /\ hasKingMoved' = NextKingMoved(selectedRow, selectedCol, row, col)
        /\ hasRookMoved' = NextRookMoved(selectedRow, selectedCol, row, col)
        /\ everMoved' = NextEverMoved(selectedRow, selectedCol, row, col)
        /\ selectedPiece' = NoPos
        /\ legalMoves' = {}
        /\ IF gameEndStatus = "checkmate"
           THEN /\ gameOver' = TRUE
                /\ UNCHANGED <<isInCheck, turn>>
           ELSE IF gameEndStatus = "stalemate"
                THEN /\ gameOver' = TRUE
                     /\ UNCHANGED <<isInCheck, turn>>
                ELSE /\ isInCheck' = isKingInCheck(newBoard, nextTurn)
                     /\ turn' = nextTurn
                     /\ UNCHANGED gameOver
        /\ movesLeft' = movesLeft - 1

(* A piece is selected and the click is on no legal destination. *)
InvalidMove(row, col) ==
  /\ ~gameOver
  /\ selectedPiece # NoPos
  /\ selectedPiece # <<row, col>>
  /\ ~(board[row][col] # null /\ getPieceColor(board[row][col]) = turn)
  /\ <<row, col>> \notin legalMoves
  /\ UNCHANGED <<board, selectedPiece, turn, legalMoves, gameOver, isInCheck,
                 hasKingMoved, hasRookMoved, everMoved, movesLeft>>

handleSquareClick(row, col) ==
  \/ ClickGameOver(row, col)
  \/ SelectPiece(row, col)
  \/ ClickWrongTurn(row, col)
  \/ ClickEmpty(row, col)
  \/ Deselect(row, col)
  \/ Reselect(row, col)
  \/ CommitMove(row, col)
  \/ InvalidMove(row, col)

resetGame ==
  /\ board' = initialBoard
  /\ selectedPiece' = NoPos
  /\ turn' = "white"
  /\ legalMoves' = {}
  /\ gameOver' = FALSE
  /\ isInCheck' = FALSE
  /\ hasKingMoved' = [white |-> FALSE, black |-> FALSE]
  /\ hasRookMoved' = [white |-> [kingside |-> FALSE, queenside |-> FALSE],
                      black |-> [kingside |-> FALSE, queenside |-> FALSE]]
  /\ everMoved' = [r \in Idx |-> [c \in Idx |-> FALSE]]
  /\ movesLeft' = IF movesLeft > DenseMoves THEN DenseMoves ELSE movesLeft

Next ==
  \/ \E row \in Idx, col \in Idx : handleSquareClick(row, col)
  \/ resetGame

Spec == Init /\ [][Next]_vars

(***************************************************************************)
(* Vocabulary of the properties                                            *)
(***************************************************************************)
PiecesOf(b, color) ==
  {sq \in Squares : b[sq[1]][sq[2]] # null
                    /\ getPieceColor(b[sq[1]][sq[2]]) = color}

(* The legality filter applied to the move generator, for one piece. *)
LegalFrom(b, sq) ==
  getLegalMovesAfterCheckFilter(b, sq[1], sq[2],
    calculateTheoreticalMoves(b, sq[1], sq[2]),
    getPieceColor(b[sq[1]][sq[2]]))

KingSquares(b, color) ==
  {sq \in Squares : b[sq[1]][sq[2]] = (IF color = "white" THEN "K" ELSE "k")}

OneKingEach(b) ==
  \A color \in Colors : Cardinality(KingSquares(b, color)) = 1

KingAttacked(b, color) ==
  \E sq \in KingSquares(b, color) :
    isSquareAttacked(b, sq[1], sq[2], Opponent(color))

NoLegalMove(b, color) == \A sq \in PiecesOf(b, color) : LegalFrom(b, sq) = {}

HomeRow(color) == IF color = "white" THEN 7 ELSE 0

(* The destination the generator adds for castling: on the home rank, on   *)
(* the given file, and not one of the king's single steps.                 *)
CastlingOffered(b, color, destCol) ==
  \E k \in KingSquares(b, color) :
    /\ <<HomeRow(color), destCol>> \in calculateTheoreticalMoves(b, k[1], k[2])
    /\ <<HomeRow(color), destCol>> \notin
         OffsetMoves(b, k[1], k[2], kingDeltas, color)

InitialBoards == {p.board : p \in Positions}

(***************************************************************************)
(* C1: on a board with one king per colour, every destination the legality *)
(* filter returns for a piece of the moving colour, applied as the commit  *)
(* step applies it (king and rook together for a two-file king move),      *)
(* leaves the mover's king on the board and not attacked by the opponent.  *)
(* The piece is the selected one: every piece of the side to move is       *)
(* selected in some state of every position.                               *)
(***************************************************************************)
C1_LegalMoveKeepsKingSafe ==
  (selectedPiece # NoPos /\ OneKingEach(board)) =>
    \A m \in LegalFrom(board, selectedPiece) :
      LET resultBoard == ApplyMove(board, selectedPiece[1], selectedPiece[2],
                                   m[1], m[2])
      IN /\ KingSquares(resultBoard, turn) # {}
         /\ ~KingAttacked(resultBoard, turn)

(* A king is selected; the filter has kept a castling destination and has  *)
(* discarded some of its theoretical moves.                                *)
C1_Witness ==
  /\ selectedPiece # NoPos
  /\ toLowerCase(board[selectedPiece[1]][selectedPiece[2]]) = "k"
  /\ \E m \in legalMoves : m[2] - selectedPiece[2] \in {2, -2}
  /\ legalMoves #
       calculateTheoreticalMoves(board, selectedPiece[1], selectedPiece[2])

(***************************************************************************)
(* C2: checkGameEnd returns checkmate exactly when the colour's king is    *)
(* attacked and no piece of the colour has a legal move, stalemate exactly *)
(* when the king is not attacked and no piece has a legal move, and null   *)
(* whenever some piece has a legal move.  The classifier does not depend   *)
(* on the selection: each board is examined in its state with nothing      *)
(* selected, for either colour.                                            *)
(***************************************************************************)
C2_Classification ==
  (selectedPiece = NoPos /\ OneKingEach(board)) =>
    \A color \in Colors :
      LET status == checkGameEnd(board, color)
          attacked == KingAttacked(board, color)
          stuck == NoLegalMove(board, color)
      IN /\ status = "checkmate" <=> (attacked /\ stuck)
         /\ status = "stalemate" <=> (~attacked /\ stuck)
         /\ ~stuck => status = null

(* A committed move has mated the opponent, who still has pieces besides   *)
(* the king.                                                               *)
C2_Witness ==
  /\ gameOver
  /\ checkGameEnd(board, Opponent(turn)) = "checkmate"
  /\ Cardinality(PiecesOf(board, Opponent(turn))) > 1

(***************************************************************************)
(* C3: a castling destination is offered to a colour only when its king    *)
(* has never moved and the rook on the corner of that side has never moved *)
(* earlier in the game.                                                    *)
(***************************************************************************)
C3_CastlingOnlyWithUnmovedRook ==
  \A color \in Colors :
    /\ CastlingOffered(board, color, 6) =>
         /\ \A k \in KingSquares(board, color) : ~everMoved[k[1]][k[2]]
         /\ ~everMoved[HomeRow(color)][7]
    /\ CastlingOffered(board, color, 2) =>
         /\ \A k \in KingSquares(board, color) : ~everMoved[k[1]][k[2]]
         /\ ~everMoved[HomeRow(color)][0]

(***************************************************************************)
(* C5: a castling destination is offered only when the king is not         *)
(* attacked, the squares between king and rook are empty (f, g kingside;   *)
(* b, c, d queenside) and the squares the king crosses and lands on (f, g  *)
(* kingside; d, c queenside) are not attacked by the opponent.  The move    *)
(* generator does not depend on the selection: each board is examined in   *)
(* its state with nothing selected, for either colour.                     *)
(***************************************************************************)
C5_CastlingPreconditions ==
  selectedPiece = NoPos =>
    \A color \in Colors :
      LET row == HomeRow(color)
          opp == Opponent(color)
      IN /\ CastlingOffered(board, color, 6) =>
              /\ ~KingAttacked(board, color)
              /\ board[row][5] = null /\ board[row][6] = null
              /\ ~isSquareAttacked(board, row, 5, opp)
              /\ ~isSquareAttacked(board, row, 6, opp)
         /\ CastlingOffered(board, color, 2) =>
              /\ ~KingAttacked(board, color)
              /\ board[row][1] = null /\ board[row][2] = null
              /\ board[row][3] = null
              /\ ~isSquareAttacked(board, row, 3, opp)
              /\ ~isSquareAttacked(board, row, 2, opp)

(* Black's rook has gone from h8 to f8: White may castle queenside but not *)
(* kingside, where f1 and g1 are empty, the rook and the flags are in      *)
(* place, and f1 is attacked.                                              *)
C5_Witness ==
  /\ board[0][5] = "r" /\ board[0][7] = null /\ board[4][7] = "B"
  /\ CastlingOffered(board, "white", 2)
  /\ ~CastlingOffered(board, "white", 6)
  /\ board[7][5] = null /\ board[7][6] = null /\ board[7][7] = "R"
  /\ ~hasKingMoved["white"] /\ ~hasRookMoved["white"].kingside
  /\ isSquareAttacked(board, 7, 5, "black")
  /\ selectedPiece = NoPos

(***************************************************************************)
(* C4: the six castling flags are false at game start; a flag that is true *)
(* stays true through every step that is not resetGame.                    *)
(***************************************************************************)
GameStart == \A r \in Idx, c \in Idx : ~everMoved[r][c]

AllFlagsFalse ==
  \A color \in Colors :
    /\ ~hasKingMoved[color]
    /\ ~hasRookMoved[color].kingside
    /\ ~hasRookMoved[color].queenside

FlagsKept ==
  \A color \in Colors :
    /\ hasKingMoved[color] => hasKingMoved'[color]
    /\ hasRookMoved[color].kingside => hasRookMoved'[color].kingside
    /\ hasRookMoved[color].queenside => hasRookMoved'[color].queenside

C4_FlagsMonotone ==
  /\ [](GameStart => AllFlagsFalse)
  /\ [][resetGame \/ FlagsKept]_vars

(* White, who had castled kingside, has since moved the a1 rook: both rook *)
(* flags and the king flag are set, and Black has clicked afterwards.      *)
C4_Witness ==
  /\ board[7][6] = "K" /\ board[7][0] = null
  /\ hasKingMoved["white"]
  /\ hasRookMoved["white"].kingside /\ hasRookMoved["white"].queenside
  /\ turn = "black" /\ selectedPiece # NoPos

(***************************************************************************)
(* C6: committing a castling move puts the king on the g-file and the rook *)
(* on the f-file of the mover's home rank, emptying the e- and h-file      *)
(* squares (kingside), or the king on the c-file and the rook on the       *)
(* d-file, emptying the a- and e-file squares (queenside); every other     *)
(* square is unchanged, and the mover's king flag and the flag of the rook *)
(* used are true afterwards.                                               *)
(***************************************************************************)
CastledBoard(b, color, kingCol, rookCol, cornerCol) ==
  [r \in Idx |-> [c \in Idx |->
     IF r = HomeRow(color) /\ c = kingCol
     THEN (IF color = "white" THEN "K" ELSE "k")
     ELSE IF r = HomeRow(color) /\ c = rookCol
          THEN (IF color = "white" THEN "R" ELSE "r")
          ELSE IF r = HomeRow(color) /\ c \in {4, cornerCol}
               THEN null
               ELSE b[r][c]]]

(* A step that commits a move: the board changes and it is no reset. *)
Committed == board' # board /\ ~resetGame

Mover == board[selectedPiece[1]][selectedPiece[2]]

(* The square the selected piece has arrived on. *)
Arrival ==
  CHOOSE d \in Squares : board'[d[1]][d[2]] = Mover /\ board[d[1]][d[2]] # Mover

CastlingCommitted ==
  /\ Committed
  /\ toLowerCase(Mover) = "k"
  /\ Arrival[2] - selectedPiece[2] \in {2, -2}

C6_CastlingRelocation ==
  [][CastlingCommitted =>
       /\ hasKingMoved'[turn]
       /\ IF Arrival[2] > selectedPiece[2]
          THEN /\ board' = CastledBoard(board, turn, 6, 5, 7)
               /\ hasRookMoved'[turn].kingside
          ELSE /\ board' = CastledBoard(board, turn, 2, 3, 0)
               /\ hasRookMoved'[turn].queenside]_vars

(* Black has just castled kingside. *)
C6_Witness ==
  /\ board[0][6] = "k" /\ board[0][5] = "r"
  /\ board[0][4] = null /\ board[0][7] = null
  /\ board[4][7] = "B"
  /\ hasKingMoved["black"] /\ hasRookMoved["black"].kingside
  /\ ~hasRookMoved["black"].queenside
  /\ turn = "white"

(***************************************************************************)
(* C7: a committed king move that is not castling sets the mover's king    *)
(* flag; a committed rook move from the a-file (h-file) corner of the      *)
(* mover's home rank sets the mover's queenside (kingside) rook flag;      *)
(* every other committed move leaves the six flags unchanged; and no       *)
(* committed move changes a flag of the colour that did not move.          *)
(***************************************************************************)
C7_FlagUpdates ==
  [][Committed =>
       LET from == selectedPiece
           kind == toLowerCase(Mover)
           other == Opponent(turn)
       IN /\ hasKingMoved'[other] = hasKingMoved[other]
          /\ hasRookMoved'[other] = hasRookMoved[other]
          /\ ~CastlingCommitted =>
               IF kind = "k"
               THEN hasKingMoved'[turn]
               ELSE IF kind = "r" /\ from = <<HomeRow(turn), 0>>
                    THEN hasRookMoved'[turn].queenside
                    ELSE IF kind = "r" /\ from = <<HomeRow(turn), 7>>
                         THEN hasRookMoved'[turn].kingside
                         ELSE /\ hasKingMoved' = hasKingMoved
                              /\ hasRookMoved' = hasRookMoved]_vars

(* Black's king has stepped off e8 without castling, after White's rook    *)
(* left h2: a plain king move has set a king flag.                         *)
C7_Witness ==
  /\ board[6][7] = null /\ board[6][6] = "P" /\ board[5][7] = "P"
  /\ board[0][1] = null
  /\ hasKingMoved["black"] /\ ~hasKingMoved["white"]
  /\ movesLeft = 0

(***************************************************************************)
(* C8: the board changes by a click only through a destination that the    *)
(* legality filter returns for the selected piece on the current board     *)
(* with the current flags and turn; a click on any other square leaves the *)
(* board, the turn, the castling flags and gameOver unchanged.             *)
(***************************************************************************)
LegalNow ==
  IF selectedPiece = NoPos \/ gameOver
     \/ getPieceColor(board[selectedPiece[1]][selectedPiece[2]]) # turn
  THEN {}
  ELSE getLegalMovesAfterCheckFilter(board, selectedPiece[1], selectedPiece[2],
         calculateTheoreticalMoves(board, selectedPiece[1], selectedPiece[2]),
         turn)

C8_OnlyFilteredMovesCommit ==
  [][resetGame
     \/ UNCHANGED <<board, turn, hasKingMoved, hasRookMoved, gameOver>>
     \/ \E m \in LegalNow :
          board' = ApplyMove(board, selectedPiece[1], selectedPiece[2],
                             m[1], m[2])]_vars

(* A second piece was selected after the first, and its move committed.    *)
C8_Witness ==
  /\ board \notin InitialBoards
  /\ board[4][4] = "P" /\ board[6][4] = null /\ board[1][4] = "p"
  /\ turn = "black"
  /\ selectedPiece = NoPos /\ legalMoves = {}

(***************************************************************************)
(* C9: a committed move moves a piece of the colour whose turn it is; the  *)
(* resulting position is classified for the opponent, and unless that is   *)
(* checkmate or stalemate the turn passes to the opponent; no other click  *)
(* changes the turn; the game starts with White to move.                   *)
(***************************************************************************)
C9_TurnsAlternate ==
  /\ [](GameStart => turn = "white")
  /\ [][resetGame
        \/ IF board' # board
           THEN /\ selectedPiece # NoPos
                /\ getPieceColor(Mover) = turn
                /\ board'[selectedPiece[1]][selectedPiece[2]] = null
                /\ \E d \in Squares : /\ board'[d[1]][d[2]] = Mover
                                      /\ board[d[1]][d[2]] # Mover
                /\ IF checkGameEnd(board', Opponent(turn)) = null
                   THEN turn' = Opponent(turn) /\ ~gameOver'
                   ELSE gameOver'
           ELSE turn' = turn]_vars

(* White then Black have moved, and it is White's turn again. *)
C9_Witness ==
  /\ movesLeft = 0 /\ turn = "white" /\ ~gameOver
  /\ board[7][7] = "R" /\ board[6][7] = null /\ board[0][1] = null

(***************************************************************************)
(* C10: isSquareAttacked(board, target, colour) is true exactly when some  *)
(* piece of the colour reaches the target with its capture pattern: a pawn *)
(* one rank behind the target on an adjacent file (a white pawn on         *)
(* rank+1, a black pawn on rank-1), a knight at an L-offset, a rook or     *)
(* queen along an unobstructed rank or file, a bishop or queen along an    *)
(* unobstructed diagonal, a king on an adjacent square.  For a target that *)
(* holds a piece of the other colour that is exactly when the target is a  *)
(* theoretical move of some piece of the attacking colour.                 *)
(***************************************************************************)
Abs(x) == IF x < 0 THEN -x ELSE x

Sgn(x) == IF x > 0 THEN 1 ELSE IF x < 0 THEN -1 ELSE 0

ClearBetween(b, s, t) ==
  LET dr == t[1] - s[1]
      dc == t[2] - s[2]
      n == IF Abs(dr) > Abs(dc) THEN Abs(dr) ELSE Abs(dc)
  IN \A k \in 1..(n - 1) : b[s[1] + k * Sgn(dr)][s[2] + k * Sgn(dc)] = null

(* The squares the piece on s reaches with its capture pattern. *)
CapturePattern(b, s) ==
  LET piece == b[s[1]][s[2]]
      kind == toLowerCase(piece)
      forward == IF getPieceColor(piece) = "white" THEN -1 ELSE 1
      straight == {t \in Squares : (t[1] = s[1] \/ t[2] = s[2]) /\ t # s
                                   /\ ClearBetween(b, s, t)}
      diagonal == {t \in Squares : Abs(t[1] - s[1]) = Abs(t[2] - s[2])
                                   /\ t # s /\ ClearBetween(b, s, t)}
  IN CASE kind = "p" ->
            {<<s[1] + forward, s[2] - 1>>, <<s[1] + forward, s[2] + 1>>}
              \cap Squares
       [] kind = "n" ->
            {<<s[1] + d[1], s[2] + d[2]>> :
               d \in {e \in (-2..2) \X (-2..2) :
                        {Abs(e[1]), Abs(e[2])} = {1, 2}}} \cap Squares
       [] kind = "r" -> straight
       [] kind = "b" -> diagonal
       [] kind = "q" -> straight \cup diagonal
       [] kind = "k" ->
            {<<s[1] + d[1], s[2] + d[2]>> :
               d \in ((-1..1) \X (-1..1)) \ {<<0, 0>>}} \cap Squares
       [] OTHER -> {}

(* The attack detector does not depend on the selection: each board is     *)
(* examined in its state with nothing selected.                            *)
C10_AttackMatchesCapturePattern ==
  selectedPiece = NoPos =>
    \A color \in Colors :
      LET pieces == PiecesOf(board, color)
          reach == UNION {calculateTheoreticalMoves(board, s[1], s[2]) :
                            s \in pieces}
          attacked == {t \in Squares :
                         isSquareAttacked(board, t[1], t[2], color)}
          patterns == UNION {CapturePattern(board, s) : s \in pieces}
          targets == PiecesOf(board, Opponent(color))
      IN /\ attacked = patterns
         /\ attacked \cap targets = reach \cap targets

(* White has answered the check with c2-c3: the pawn now attacks the       *)
(* bishop on b4, and does not attack c4, the square in front of it.        *)
C10_Witness ==
  /\ board[5][2] = "P" /\ board[6][2] = null /\ board[4][1] = "b"
  /\ isSquareAttacked(board, 4, 1, "white")
  /\ <<4, 1>> \in calculateTheoreticalMoves(board, 5, 2)
  /\ ~isSquareAttacked(board, 4, 2, "white")
  /\ selectedPiece = NoPos

(***************************************************************************)
(* C11: on the standard starting position with all castling flags false    *)
(* White has exactly 20 legal moves, 16 by pawns and 4 by knights and none *)
(* by any other piece, and the classifier reports the game as ongoing for  *)
(* White.                                                                  *)
(***************************************************************************)
(* The legal moves of the colour's pieces of the given kinds, as pairs of  *)
(* origin and destination.                                                 *)
LegalMovesOf(b, color, kinds) ==
  UNION {{<<s, m>> : m \in LegalFrom(b, s)} :
           s \in {t \in PiecesOf(b, color) :
                    toLowerCase(b[t[1]][t[2]]) \in kinds}}

C11_TwentyOpeningMoves ==
  (board = initialBoard /\ AllFlagsFalse) =>
    /\ Cardinality(LegalMovesOf(board, "white", {"p"})) = 16
    /\ Cardinality(LegalMovesOf(board, "white", {"n"})) = 4
    /\ LegalMovesOf(board, "white", {"r", "b", "q", "k"}) = {}
    /\ checkGameEnd(board, "white") = null

(* The knight on g1 has been selected on the starting position: it has its *)
(* two moves.                                                              *)
C11_Witness ==
  /\ board = initialBoard /\ AllFlagsFalse /\ turn = "white"
  /\ selectedPiece = <<7, 6>>
  /\ legalMoves = {<<5, 5>>, <<5, 7>>}

(***************************************************************************)
(* The game 1.f3 e5 2.g4 Qh4 and its neighbours: play from the starting    *)
(* position in which the clicks fall on the eight squares those four moves *)
(* leave and reach, and on the other squares the three pawns can step to   *)
(* (f4, g3, e6).                                                           *)
(***************************************************************************)
FoolsMateSquares ==
  {<<6, 5>>, <<5, 5>>, <<1, 4>>, <<3, 4>>,
   <<6, 6>>, <<4, 6>>, <<0, 3>>, <<4, 7>>,
   <<4, 5>>, <<5, 6>>, <<2, 4>>}

FoolsMateInit ==
  /\ board = initialBoard
  /\ selectedPiece = NoPos
  /\ turn = "white"
  /\ legalMoves = {}
  /\ gameOver = FALSE
  /\ isInCheck = FALSE
  /\ hasKingMoved = [white |-> FALSE, black |-> FALSE]
  /\ hasRookMoved = [white |-> [kingside |-> FALSE, queenside |-> FALSE],
                     black |-> [kingside |-> FALSE, queenside |-> FALSE]]
  /\ everMoved = [r \in Idx |-> [c \in Idx |-> FALSE]]
  /\ movesLeft = MateMoves

FoolsMateNext ==
  \/ \E sq \in FoolsMateSquares : handleSquareClick(sq[1], sq[2])
  \/ resetGame

SpecFoolsMate == FoolsMateInit /\ [][FoolsMateNext]_vars

AfterF3 == Put(Put(initialBoard, 6, 5, null), 5, 5, "P")

AfterE5 == Put(Put(AfterF3, 1, 4, null), 3, 4, "p")

AfterG4 == Put(Put(AfterE5, 6, 6, null), 4, 6, "P")

AfterQh4 == Put(Put(AfterG4, 0, 3, null), 4, 7, "q")

(***************************************************************************)
(* C12: from the starting position each of 1.f3 e5 2.g4 Qh4 is among the   *)
(* legal moves of its piece when that piece is selected in its turn, and   *)
(* on the board after Qh4 the classifier reports checkmate for White and   *)
(* the game is over.                                                       *)
(***************************************************************************)
C12_FoolsMate ==
  /\ (board = initialBoard /\ selectedPiece = <<6, 5>>)
       => <<5, 5>> \in legalMoves
  /\ (board = AfterF3 /\ selectedPiece = <<1, 4>>)
       => <<3, 4>> \in legalMoves
  /\ (board = AfterE5 /\ selectedPiece = <<6, 6>>)
       => <<4, 6>> \in legalMoves
  /\ (board = AfterG4 /\ selectedPiece = <<0, 3>>)
       => <<4, 7>> \in legalMoves
  /\ board = AfterQh4
       => /\ gameOver
          /\ checkGameEnd(board, "white") = "checkmate"

(* The four moves have been committed and the game is over, with the turn  *)
(* left on the mover.                                                      *)
C12_Witness ==
  /\ board = AfterQh4 /\ gameOver /\ turn = "black"
  /\ movesLeft = MateMoves - 4
  /\ selectedPiece = NoPos

(***************************************************************************)
(* C13: on the board that holds only a white king on a1, a black king on   *)
(* c2 and a black queen on b3, the white king is not attacked, it has no   *)
(* legal move, and the classifier reports stalemate for White.             *)
(***************************************************************************)
StalemateFixture ==
  Put(Put(Put([r \in Idx |-> [c \in Idx |-> null]],
              7, 0, "K"), 6, 2, "k"), 5, 1, "q")

C13_StalemateFixture ==
  board = StalemateFixture =>
    /\ ~isSquareAttacked(board, 7, 0, "black")
    /\ ~isKingInCheck(board, "white")
    /\ LegalFrom(board, <<7, 0>>) = {}
    /\ checkGameEnd(board, "white") = "stalemate"

(* Black's queen has gone to b3 and the game has ended without a check.    *)
C13_Witness ==
  /\ board = StalemateFixture
  /\ gameOver /\ turn = "black" /\ ~isInCheck
  /\ calculateTheoreticalMoves(board, 7, 0) # {}

(***************************************************************************)
(* Boards without a king.  No game reaches one; the legality filter and    *)
(* isKingInCheck are applied to them as functions of their arguments: the  *)
(* boards are those of Positions with the king of one colour taken off,    *)
(* either colour to move.                                                  *)
(***************************************************************************)
WithoutKing(b, color) ==
  [r \in Idx |-> [c \in Idx |->
     IF b[r][c] = (IF color = "white" THEN "K" ELSE "k") THEN null
     ELSE b[r][c]]]

NoKingInit ==
  \E p \in Positions, lost \in Colors, toMove \in Colors :
    /\ board = WithoutKing(p.board, lost)
    /\ selectedPiece = NoPos
    /\ turn = toMove
    /\ legalMoves = {}
    /\ gameOver = FALSE
    /\ isInCheck = isKingInCheck(WithoutKing(p.board, lost), toMove)
    /\ hasKingMoved = [white |-> p.white.king, black |-> p.black.king]
    /\ hasRookMoved =
         [white |-> [kingside |-> p.white.kingside,
                     queenside |-> p.white.queenside],
          black |-> [kingside |-> p.black.kingside,
                     queenside |-> p.black.queenside]]
    /\ everMoved = [r \in Idx |-> [c \in Idx |->
                      WithoutKing(p.board, lost)[r][c] # null
                      /\ <<r, c>> \notin p.unmoved]]
    /\ movesLeft = DenseMoves

SpecNoKing == NoKingInit /\ [][Next]_vars

(***************************************************************************)
(* C14: on a board that holds no king of a colour, the legality filter     *)
(* returns the empty set for every piece of that colour, so a selection of *)
(* such a piece stores no legal move, and isKingInCheck reports false for  *)
(* that colour.                                                            *)
(***************************************************************************)
C14_NoKingNoMoves ==
  \A color \in Colors :
    KingSquares(board, color) = {} =>
      /\ \A sq \in PiecesOf(board, color) : LegalFrom(board, sq) = {}
      /\ ~isKingInCheck(board, color)
      /\ (selectedPiece # NoPos /\ turn = color) => legalMoves = {}

(* Black has no king; the pawn on e7 is selected, it has theoretical moves *)
(* and none of them is legal.                                              *)
C14_Witness ==
  /\ KingSquares(board, "black") = {} /\ board[7][4] = "K"
  /\ turn = "black" /\ selectedPiece = <<1, 4>>
  /\ calculateTheoreticalMoves(board, 1, 4) # {}
  /\ legalMoves = {}

(***************************************************************************)
(* C15: for a pawn calculateTheoreticalMoves returns exactly the square    *)
(* one rank forward if it is on the board and empty, the square two ranks  *)
(* forward if the pawn stands on its starting rank and both squares are    *)
(* empty, and each forward-diagonal square on the board that holds a piece *)
(* of the other colour; never an empty diagonal square, an off-board       *)
(* square or a square holding a piece of the pawn's colour.                *)
(***************************************************************************)
PawnPattern(b, s) ==
  LET color == getPieceColor(b[s[1]][s[2]])
      forward == IF color = "white" THEN -1 ELSE 1
      start == IF color = "white" THEN 6 ELSE 1
  IN {t \in Squares :
        \/ /\ t = <<s[1] + forward, s[2]>>
           /\ b[t[1]][t[2]] = null
        \/ /\ t = <<s[1] + 2 * forward, s[2]>>
           /\ s[1] = start
           /\ b[s[1] + forward][s[2]] = null
           /\ b[t[1]][t[2]] = null
        \/ /\ t[1] = s[1] + forward
           /\ Abs(t[2] - s[2]) = 1
           /\ b[t[1]][t[2]] # null
           /\ getPieceColor(b[t[1]][t[2]]) = Opponent(color)}

C15_PawnMoves ==
  \A s \in Squares :
    toLowerCase(board[s[1]][s[2]]) = "p" =>
      LET moves == calculateTheoreticalMoves(board, s[1], s[2])
      IN /\ moves = PawnPattern(board, s)
         /\ moves \subseteq Squares
         /\ \A t \in moves :
              IF t[2] = s[2] THEN board[t[1]][t[2]] = null
              ELSE /\ board[t[1]][t[2]] # null
                   /\ getPieceColor(board[t[1]][t[2]])
                        # getPieceColor(board[s[1]][s[2]])

(* Black's pawn on d5 is selected: it may step to d4 or capture on e4, and *)
(* has no move to the empty c4.                                            *)
C15_Witness ==
  /\ selectedPiece = <<3, 3>> /\ board[3][3] = "p"
  /\ board[4][4] = "P" /\ board[4][2] = null /\ board[4][3] = null
  /\ legalMoves = {<<4, 3>>, <<4, 4>>}

(***************************************************************************)
(* C16: in every reachable state isInCheck is true exactly when the king   *)
(* of the colour whose turn it is is attacked on the current board, the    *)
(* states after checkmate or stalemate included.                           *)
(***************************************************************************)
C16_InCheckIndicator == isInCheck <=> KingAttacked(board, turn)

(***************************************************************************)
(* C17: in every state of a game the board holds exactly one white king    *)
(* and exactly one black king (no committed move captures a king), and the *)
(* king of the side that has just moved is not attacked.                   *)
(***************************************************************************)
(* The turn passes with a committed move unless that move ends the game.   *)
JustMoved == IF gameOver THEN turn ELSE Opponent(turn)

C17_OneKingEach ==
  /\ OneKingEach(board)
  /\ ~KingAttacked(board, JustMoved)

(* White's queen has captured the checking rook on e8 and mated: the black *)
(* king is attacked and on the board, the white king is no longer attacked.*)
C17_Witness ==
  /\ board[0][4] = "Q" /\ board[3][7] = null /\ board[0][6] = "k"
  /\ gameOver /\ JustMoved = "white"
  /\ KingAttacked(board, "black")
  /\ ~KingAttacked(board, "white")

(***************************************************************************)
(* C18: a colour whose king flag is false has its king on its home square  *)
(* (the e-file of rank 7 for White, of rank 0 for Black); hence a castling *)
(* destination that is offered lies two files from the king on the king's  *)
(* own rank, and the legality filter and the commit step both treat the    *)
(* move as castling and produce the same board.                            *)
(***************************************************************************)
C18_UnmovedKingAtHome ==
  \A color \in Colors :
    /\ ~hasKingMoved[color] =>
         board[HomeRow(color)][4] = (IF color = "white" THEN "K" ELSE "k")
    /\ \A k \in KingSquares(board, color), destCol \in {2, 6} :
         CastlingOffered(board, color, destCol) =>
           LET castled == CastledBoard(board, color, destCol,
                                       IF destCol = 6 THEN 5 ELSE 3,
                                       IF destCol = 6 THEN 7 ELSE 0)
           IN /\ k = <<HomeRow(color), 4>>
              /\ Abs(destCol - k[2]) = 2
              /\ isCastlingAttempt(board, k[1], k[2], k[1], destCol)
              /\ SimulateMove(board, k[1], k[2], k[1], destCol) = castled
              /\ ApplyMove(board, k[1], k[2], k[1], destCol) = castled

(* White's unmoved king is selected on e1: castling to c1 is among its     *)
(* legal moves, castling to g1 is not.                                     *)
C18_Witness ==
  /\ ~hasKingMoved["white"] /\ turn = "white"
  /\ selectedPiece = <<7, 4>> /\ board[7][4] = "K"
  /\ <<7, 2>> \in legalMoves /\ <<7, 6>> \notin legalMoves
  /\ CastlingOffered(board, "white", 2)

(***************************************************************************)
(* C19: a committed move that the classifier finds to be checkmate or      *)
(* stalemate for the opponent sets gameOver; while gameOver holds, a step  *)
(* either leaves the board, the turn, the selection, the castling flags    *)
(* and gameOver unchanged, or restores the initial board with White to     *)
(* move, no selection, gameOver false and all castling flags false.        *)
(***************************************************************************)
C19_GameOverAbsorbing ==
  /\ [][(Committed /\ checkGameEnd(board', Opponent(turn)) # null)
          => gameOver']_vars
  /\ [][gameOver =>
          \/ UNCHANGED <<board, turn, selectedPiece, hasKingMoved,
                         hasRookMoved, gameOver>>
          \/ /\ board' = initialBoard
             /\ turn' = "white"
             /\ selectedPiece' = NoPos
             /\ ~gameOver'
             /\ AllFlagsFalse']_vars

(* White's rook has mated on a8: the game is over, with nothing selected   *)
(* and the turn left on White.                                             *)
C19_Witness ==
  /\ gameOver /\ board[0][0] = "R" /\ board[7][0] = null
  /\ turn = "white" /\ selectedPiece = NoPos
  /\ checkGameEnd(board, "black") = "checkmate"
  /\ hasRookMoved["white"].queenside

====
